---- MODULE Spec2Model ----
(***************************************************************************)
(* The internal moderation API of frcVisionDataset                         *)
(* (src/app/api/internal_v1.py): the review queue, image review updates,   *)
(* role changes and category creation, behind the rate limiter and the     *)
(* role dependencies of each route.                                        *)
(***************************************************************************)
EXTENDS Integers, Sequences, FiniteSets, TLC

VARIABLES
    images,           \* table Image: id -> row, for the rows that exist
    role,             \* table User, column role: user id -> UserRole
    superCategories,  \* table LabelSuperCategory (primary keys)
    categories,       \* table LabelCategory (primary keys)
    hits,             \* RateLimiter instances: requests admitted in the current window
    session,          \* PUT /review-image requests between session.get and commit
    last,             \* the response most recently produced (or the request just admitted)
    held,             \* review scenario: the metadata a moderator fetched and has not resolved
    returned          \* review scenario: the images GET /review-image returned, in order

db == <<images, role, superCategories, categories>>
vars == <<images, role, superCategories, categories, hits, session, last, held, returned>>

----------------------------------------------------------------------------
(* Bounds of the model *)

MaxImages == 2

ImageIds == 1..MaxImages
Times == {1, 2}
Workers == {1, 2}
UserIds == {1, 2}
Batches == {1, 2}
Annotations == {"none", "boxes"}
CategoryIds == {1}

----------------------------------------------------------------------------
(* app.models.models and app.core.helpers, as internal_v1.py uses them *)

UserRole == {"USER", "MODERATOR", "ADMIN"}

RoleLevel(r) == CASE r = "USER" -> 1 [] r = "MODERATOR" -> 2 [] r = "ADMIN" -> 3

ImageReviewStatus == {"awaiting_review", "approved"}

\* User.username and User.team_number of user u (fixed columns of table User)
username_of(u) == <<"user", u>>
team_number_of(u) == 100 + u

Usernames == {username_of(u) : u \in UserIds} \cup {<<"user", 0>>}
TeamNumbers == {team_number_of(u) : u \in UserIds}

\* The helpers answer with a sequence: <<x>> when the lookup finds x, <<>> when
\* it finds nothing (the helper then raises).
get_user_from_username(username) ==
    IF \E u \in UserIds : username_of(u) = username
    THEN <<CHOOSE u \in UserIds : username_of(u) = username>>
    ELSE <<>>

get_id_from_team_number(team_number) ==
    IF \E u \in UserIds : team_number_of(u) = team_number
    THEN <<CHOOSE u \in UserIds : team_number_of(u) = team_number>>
    ELSE <<>>

get_team_number_from_id(user_id) == team_number_of(user_id)

\* Security(minimum_role(r)): hierarchical comparison of the caller's role
minimum_role(r, u) == RoleLevel(role[u]) >= RoleLevel(r)

\* Security(require_role(r)): the caller's role is r
require_role(r, u) == role[u] = r

Row == [batch : Batches, created_at : Times, created_by : UserIds,
        annotations : Annotations, review_status : ImageReviewStatus]

ReviewMetadata == [id : ImageIds, batch : Batches, created_at : Times,
                   created_by : TeamNumbers \cup {100},
                   annotations : Annotations, review_status : ImageReviewStatus]

----------------------------------------------------------------------------
(* The routes and their dependencies *)

GET_REVIEW == "GET /review-image"
PUT_REVIEW == "PUT /review-image"
GET_IMAGE == "GET /image/{image_id}"
POST_TOKEN == "POST /token"
PUT_ROLE == "PUT /change-user-role"
PUT_SUPER == "PUT /categories/super/create"
PUT_CATEGORY == "PUT /categories/create"

Endpoints == {GET_REVIEW, PUT_REVIEW, GET_IMAGE, POST_TOKEN, PUT_ROLE, PUT_SUPER, PUT_CATEGORY}

\* The routes whose decorator carries Depends(RateLimiter(...))
RateLimited == {GET_REVIEW, PUT_REVIEW, GET_IMAGE, POST_TOKEN, PUT_ROLE}

\* Every limiter built with the limit of POST /token
requests_limit_all_ten(ep) == 10

requests_limit(ep) == IF ep = POST_TOKEN THEN 10 ELSE 5

\* The routes whose signature carries a Security(...) role dependency
RoleChecked == {GET_REVIEW, PUT_REVIEW, GET_IMAGE, PUT_ROLE, PUT_SUPER, PUT_CATEGORY}

\* PUT /change-user-role behind minimum_role(MODERATOR) like its neighbours
RoleDependency_role_by_minimum(ep, u) ==
    IF ep \in RoleChecked THEN minimum_role("MODERATOR", u) ELSE TRUE

\* The category routes left without their Security dependency
RoleDependency_open_categories(ep, u) ==
    CASE ep = PUT_ROLE -> require_role("ADMIN", u)
      [] ep \in RoleChecked \ {PUT_ROLE, PUT_SUPER, PUT_CATEGORY} -> minimum_role("MODERATOR", u)
      [] OTHER -> TRUE

RoleDependency(ep, u) ==
    CASE ep = PUT_ROLE -> require_role("ADMIN", u)
      [] ep \in RoleChecked \ {PUT_ROLE} -> minimum_role("MODERATOR", u)
      [] OTHER -> TRUE

\* A limiter that admits one request more than requests_limit
RateLimiter_off_by_one(ep) == ep \in RateLimited => hits[ep] <= requests_limit(ep)

\* RateLimiter.__call__: the request is admitted while the window's count is
\* below requests_limit
RateLimiter(ep) == ep \in RateLimited => hits[ep] < requests_limit(ep)

Count(ep) ==
    IF ep \in RateLimited /\ hits[ep] < requests_limit(ep)
    THEN [hits EXCEPT ![ep] = @ + 1]
    ELSE hits

\* The limiters are independent of one another: the model lets one of them
\* count a window at a time
WithinBound(ep) == ep \in RateLimited => \A e \in RateLimited \ {ep} : hits[e] = 0

Response(ep, st, body) == [ep |-> ep, status |-> st, body |-> body]

GateStatuses == {"TOO_MANY_REQUESTS", "FORBIDDEN"}

\* A request to route ep by caller u: the decorator's dependencies run first
\* (the rate limiter), then the signature's (the role check), then the body.
Depends(ep, u, Body) ==
    /\ WithinBound(ep)
    /\ hits' = Count(ep)
    /\ IF ~RateLimiter(ep)
       THEN /\ last' = Response(ep, "TOO_MANY_REQUESTS", <<>>)
            /\ UNCHANGED <<db, session>>
       ELSE IF ~RoleDependency(ep, u)
       THEN /\ last' = Response(ep, "FORBIDDEN", <<>>)
            /\ UNCHANGED <<db, session>>
       ELSE Body

\* The time window of a limiter runs out
window_expires(ep) ==
    /\ hits[ep] > 0
    /\ hits' = [hits EXCEPT ![ep] = 0]
    /\ UNCHANGED <<db, session, last>>

----------------------------------------------------------------------------
(* The ORM calls of the handlers *)

\* select(Image).where(review_status == target_status).order_by(asc(created_at)).limit(1):
\* the lists of rows the query may answer with. Rows of equal created_at come in
\* an order the database chooses.
HasStatus(target_status) == {i \in DOMAIN images : images[i].review_status = target_status}

\* order_by(desc(created_at)) in place of asc
exec_statement_desc(target_status) ==
    LET S == HasStatus(target_status)
        first == {i \in S : \A j \in S : images[i].created_at >= images[j].created_at}
    IN  IF S = {} THEN {<<>>} ELSE {<<i>> : i \in first}

exec_statement(target_status) ==
    LET S == HasStatus(target_status)
        first == {i \in S : \A j \in S : images[i].created_at <= images[j].created_at}
    IN  IF S = {} THEN {<<>>} ELSE {<<i>> : i \in first}

\* Result.one(): exactly one row, or an exception
one(rows) ==
    IF Len(rows) = 0 THEN [exc |-> "NoResultFound", value |-> <<>>]
    ELSE IF Len(rows) > 1 THEN [exc |-> "MultipleResultsFound", value |-> <<>>]
    ELSE [exc |-> "", value |-> rows]

\* session.get taken never to answer None
session_get_unchecked(id) == <<id>>

\* session.get(Image, id)
session_get(id) == IF id \in DOMAIN images THEN <<id>> ELSE <<>>

\* ReviewMetadata(id=image.id, ..., created_by=get_team_number_from_id(...), ...)
ReviewMetadataOf(id) ==
    [id |-> id,
     annotations |-> images[id].annotations,
     created_at |-> images[id].created_at,
     created_by |-> get_team_number_from_id(images[id].created_by),
     batch |-> images[id].batch,
     review_status |-> images[id].review_status]

\* The assignment of created_at left out
Assigned_without_created_at(new_data, created_by) ==
    [batch |-> new_data.batch,
     created_at |-> IF new_data.id \in DOMAIN images THEN images[new_data.id].created_at ELSE 1,
     created_by |-> created_by,
     annotations |-> new_data.annotations,
     review_status |-> new_data.review_status]

\* The row after image.batch = new_data.batch ... image.review_status = new_data.review_status
Assigned(new_data, created_by) ==
    [batch |-> new_data.batch,
     created_at |-> new_data.created_at,
     created_by |-> created_by,
     annotations |-> new_data.annotations,
     review_status |-> new_data.review_status]

\* The delete never flushed
commit_delete_lost(id) == images

\* session.delete(image); session.commit(): DELETE ... WHERE id = :id
commit_delete(id) == [i \in DOMAIN images \ {id} |-> images[i]]

\* session.add inserting the row again when it is gone (a merge)
commit_update_upsert(id, row) == [i \in DOMAIN images \cup {id} |-> IF i = id THEN row ELSE images[i]]

\* session.add(image); session.commit(): UPDATE ... WHERE id = :id of the
\* assigned columns; it matches no row when the row is gone
commit_update(id, row) ==
    IF id \in DOMAIN images THEN [images EXCEPT ![id] = row] ELSE images

----------------------------------------------------------------------------
(* The handlers *)

\* GET /review-image
get_image_for_review(u, target_status) ==
    Depends(GET_REVIEW, u,
        \E rows \in exec_statement(target_status) :
            LET image == one(rows) IN
            /\ last' = IF image.exc # ""
                       THEN Response(GET_REVIEW, image.exc, <<>>)
                       ELSE IF image.value = <<>>
                       THEN Response(GET_REVIEW, "LookupError", <<>>)
                       ELSE Response(GET_REVIEW, "OK", <<ReviewMetadataOf(image.value[1])>>)
            /\ UNCHANGED <<db, session>>)

\* PUT /review-image, up to the 404 check: worker w serves caller u; the rest
\* of new_data and remove_image are read after session.get
update_image_review_status_get(w, u, id) ==
    /\ session[w] = <<>>
    /\ Depends(PUT_REVIEW, u,
        LET image == session_get(id) IN
        IF image = <<>>
        THEN /\ last' = Response(PUT_REVIEW, "NOT_FOUND", <<>>)
             /\ UNCHANGED <<db, session>>
        ELSE /\ session' = [session EXCEPT ![w] = <<id>>]
             /\ last' = Response(PUT_REVIEW, "IN_FLIGHT", <<>>)
             /\ UNCHANGED db)

\* PUT /review-image, from "if remove_image" to the commit
update_image_review_status_commit(w, new_data, remove_image) ==
    /\ session[w] # <<>>
    /\ new_data.id = session[w][1]
    /\ LET id == session[w][1]
           created_by == get_id_from_team_number(new_data.created_by)
       IN  IF remove_image
           THEN /\ images' = commit_delete(id)
                /\ last' = Response(PUT_REVIEW, "OK", <<>>)
           ELSE IF created_by = <<>>
           THEN /\ images' = images
                /\ last' = Response(PUT_REVIEW, "NoResultFound", <<>>)
           ELSE /\ images' = commit_update(id, Assigned(new_data, created_by[1]))
                /\ last' = Response(PUT_REVIEW,
                                    IF id \in DOMAIN images THEN "OK" ELSE "StaleDataError", <<>>)
    /\ session' = [session EXCEPT ![w] = <<>>]
    /\ UNCHANGED <<role, superCategories, categories, hits>>

\* GET /image/{image_id}
get_image(u, image_id) ==
    Depends(GET_IMAGE, u,
        /\ last' = Response(GET_IMAGE, "OK", <<>>)
        /\ UNCHANGED <<db, session>>)

\* POST /token
redirect_token(u) ==
    Depends(POST_TOKEN, u,
        /\ last' = Response(POST_TOKEN, "TEMPORARY_REDIRECT", <<>>)
        /\ UNCHANGED <<db, session>>)

\* PUT /change-user-role
change_user_role(u, username, new_role) ==
    Depends(PUT_ROLE, u,
        LET user == get_user_from_username(username) IN
        IF user = <<>>
        THEN /\ last' = Response(PUT_ROLE, "NoResultFound", <<>>)
             /\ UNCHANGED <<db, session>>
        ELSE /\ role' = [role EXCEPT ![user[1]] = new_role]
             /\ last' = Response(PUT_ROLE, "OK", <<>>)
             /\ UNCHANGED <<images, superCategories, categories, session>>)

\* PUT /categories/super/create
create_label_super_category(u, category) ==
    Depends(PUT_SUPER, u,
        IF category \in superCategories
        THEN /\ last' = Response(PUT_SUPER, "IntegrityError", <<>>)
             /\ UNCHANGED <<db, session>>
        ELSE /\ superCategories' = superCategories \cup {category}
             /\ last' = Response(PUT_SUPER, "OK", <<>>)
             /\ UNCHANGED <<images, role, categories, session>>)

\* PUT /categories/create
create_label_category(u, category) ==
    Depends(PUT_CATEGORY, u,
        IF category \in categories
        THEN /\ last' = Response(PUT_CATEGORY, "IntegrityError", <<>>)
             /\ UNCHANGED <<db, session>>
        ELSE /\ categories' = categories \cup {category}
             /\ last' = Response(PUT_CATEGORY, "OK", <<>>)
             /\ UNCHANGED <<images, role, superCategories, session>>)

----------------------------------------------------------------------------
(* The whole API *)

\* The rows as uploaded: they differ in created_at and review_status only
PlainRow == {r \in Row : r.batch = 1 /\ r.annotations = "none" /\ r.created_by = 1}

\* The metadata a moderator sends back when only the date or the status is edited
PlainMetadata ==
    {m \in ReviewMetadata :
        m.batch = 1 /\ m.annotations = "none" /\ m.created_by = team_number_of(1)}

NoRequest == Response("", "", <<>>)

InitCommon ==
    /\ superCategories = {}
    /\ categories = {}
    /\ hits = [e \in RateLimited |-> 0]
    /\ session = [w \in Workers |-> <<>>]
    /\ last = NoRequest
    /\ held = [w \in Workers |-> <<>>]
    /\ returned = <<>>

\* One image is in the table; the users hold any roles
Init ==
    /\ InitCommon
    /\ images \in [{1} -> PlainRow]
    /\ role \in [UserIds -> UserRole]

Next ==
    \/ /\ \E u \in UserIds, target_status \in ImageReviewStatus :
            get_image_for_review(u, target_status)
       /\ UNCHANGED <<held, returned>>
    \/ /\ \E u \in UserIds, id \in ImageIds :
            update_image_review_status_get(1, u, id)
       /\ UNCHANGED <<held, returned>>
    \/ /\ \E new_data \in PlainMetadata, remove_image \in BOOLEAN :
            update_image_review_status_commit(1, new_data, remove_image)
       /\ UNCHANGED <<held, returned>>
    \/ /\ \E u \in UserIds, image_id \in ImageIds : get_image(u, image_id)
       /\ UNCHANGED <<held, returned>>
    \/ /\ \E u \in UserIds : redirect_token(u)
       /\ UNCHANGED <<held, returned>>
    \/ /\ \E u \in UserIds, username \in Usernames, new_role \in UserRole :
            change_user_role(u, username, new_role)
       /\ UNCHANGED <<held, returned>>
    \/ /\ \E u \in UserIds, category \in CategoryIds : create_label_super_category(u, category)
       /\ UNCHANGED <<held, returned>>
    \/ /\ \E u \in UserIds, category \in CategoryIds : create_label_category(u, category)
       /\ UNCHANGED <<held, returned>>
    \/ /\ \E ep \in RateLimited : window_expires(ep)
       /\ UNCHANGED <<held, returned>>

Spec == Init /\ [][Next]_vars

----------------------------------------------------------------------------
(* The review queue: moderators fetch and update concurrently *)

\* User 1 is an ordinary user, the others are moderators
ReviewRoles == [u \in UserIds |-> IF u = 1 THEN "USER" ELSE "MODERATOR"]

InitReview ==
    /\ InitCommon
    /\ images \in [ImageIds -> PlainRow]
    /\ role = ReviewRoles

NextReview ==
    \/ /\ \E u \in UserIds, target_status \in ImageReviewStatus :
            get_image_for_review(u, target_status)
       /\ UNCHANGED <<held, returned>>
    \/ /\ \E w \in Workers, u \in UserIds, id \in ImageIds :
            update_image_review_status_get(w, u, id)
       /\ UNCHANGED <<held, returned>>
    \/ /\ \E w \in Workers, new_data \in PlainMetadata, remove_image \in BOOLEAN :
            update_image_review_status_commit(w, new_data, remove_image)
       /\ UNCHANGED <<held, returned>>
    \/ /\ \E ep \in {GET_REVIEW, PUT_REVIEW} : window_expires(ep)
       /\ UNCHANGED <<held, returned>>

SpecReview == InitReview /\ [][NextReview]_vars

----------------------------------------------------------------------------
(* Editing: one PUT /review-image at a time, with edits of every field *)

\* The edits: a date or a status alone, or the batch, the annotations and the
\* team (a known one or an unknown one) together
EditMetadata ==
    PlainMetadata \cup
    {m \in ReviewMetadata :
        m.batch = 2 /\ m.annotations = "boxes" /\ m.created_by \in {team_number_of(2), 100}}

NextEdit ==
    \/ /\ \E u \in UserIds, id \in ImageIds :
            update_image_review_status_get(1, u, id)
       /\ UNCHANGED <<held, returned>>
    \/ /\ \E new_data \in EditMetadata, remove_image \in BOOLEAN :
            update_image_review_status_commit(1, new_data, remove_image)
       /\ UNCHANGED <<held, returned>>
    \/ /\ window_expires(PUT_REVIEW)
       /\ UNCHANGED <<held, returned>>

SpecEdit == InitReview /\ [][NextEdit]_vars

----------------------------------------------------------------------------
(* Draining the queue of one status: every moderator repeatedly fetches the   *)
(* head of the queue and then deletes it or moves it to another status        *)

DrainStatus == "awaiting_review"

Moderators == {u \in UserIds : minimum_role("MODERATOR", u)}

ModeratorFetch(w) ==
    /\ held[w] = <<>>
    /\ session[w] = <<>>
    /\ \E u \in Moderators : get_image_for_review(u, DrainStatus)
    /\ IF last'.status = "OK"
       THEN /\ held' = [held EXCEPT ![w] = last'.body]
            /\ returned' = Append(returned, last'.body[1])
       ELSE UNCHANGED <<held, returned>>

ModeratorOpen(w) ==
    /\ held[w] # <<>>
    /\ \E u \in Moderators : update_image_review_status_get(w, u, held[w][1].id)
    /\ held' = IF last'.status = "NOT_FOUND" THEN [held EXCEPT ![w] = <<>>] ELSE held
    /\ UNCHANGED returned

ModeratorResolve(w) ==
    /\ held[w] # <<>>
    /\ \E remove_image \in BOOLEAN, st \in ImageReviewStatus \ {DrainStatus} :
            update_image_review_status_commit(
                w, [held[w][1] EXCEPT !.review_status = st], remove_image)
    /\ held' = [held EXCEPT ![w] = <<>>]
    /\ UNCHANGED returned

Expire(ep) == window_expires(ep) /\ UNCHANGED <<held, returned>>

NextDrain ==
    \/ \E w \in Workers : ModeratorFetch(w)
    \/ \E w \in Workers : ModeratorOpen(w)
    \/ \E w \in Workers : ModeratorResolve(w)
    \/ \E ep \in {GET_REVIEW, PUT_REVIEW} : Expire(ep)

Fairness ==
    /\ \A w \in Workers :
        WF_vars(ModeratorFetch(w)) /\ WF_vars(ModeratorOpen(w)) /\ WF_vars(ModeratorResolve(w))
    /\ \A ep \in {GET_REVIEW, PUT_REVIEW} : WF_vars(Expire(ep))

SpecDrain == InitReview /\ [][NextDrain]_vars /\ Fairness

----------------------------------------------------------------------------
(* Requests, for the properties *)

\* A request to route ep by caller u, with any input
Request(ep, u) ==
    CASE ep = GET_REVIEW -> \E target_status \in ImageReviewStatus :
                                get_image_for_review(u, target_status)
      [] ep = PUT_REVIEW -> \E w \in Workers, id \in ImageIds :
                                update_image_review_status_get(w, u, id)
      [] ep = GET_IMAGE -> \E image_id \in ImageIds : get_image(u, image_id)
      [] ep = POST_TOKEN -> redirect_token(u)
      [] ep = PUT_ROLE -> \E username \in Usernames, new_role \in UserRole :
                                change_user_role(u, username, new_role)
      [] ep = PUT_SUPER -> \E category \in CategoryIds : create_label_super_category(u, category)
      [] ep = PUT_CATEGORY -> \E category \in CategoryIds : create_label_category(u, category)

\* The step's request came past the dependencies: the handler's body ran
BodyRan == last'.status \notin GateStatuses

----------------------------------------------------------------------------
(* The review queue *)

\* C1: whenever some image has review_status = target_status, get_image_for_review
\* answers with the metadata of one image of that status whose created_at is at
\* most that of every image of that status, and changes no table.
C1_OldestOfQueue ==
    [][\A u \in UserIds, target_status \in ImageReviewStatus :
        (/\ get_image_for_review(u, target_status)
         /\ BodyRan
         /\ \E i \in DOMAIN images : images[i].review_status = target_status)
        => /\ last'.status = "OK"
           /\ Len(last'.body) = 1
           /\ LET m == last'.body[1] IN
              /\ m.id \in DOMAIN images
              /\ m.review_status = target_status
              /\ images[m.id].review_status = target_status
              /\ m.created_at = images[m.id].created_at
              /\ m.batch = images[m.id].batch
              /\ m.annotations = images[m.id].annotations
              /\ m.created_by = team_number_of(images[m.id].created_by)
              /\ \A j \in DOMAIN images :
                    images[j].review_status = target_status
                    => m.created_at <= images[j].created_at
           /\ UNCHANGED db]_vars

\* A fetch answered with an image while a newer image of the same status waits
C1_Witness ==
    /\ last.ep = GET_REVIEW
    /\ last.status = "OK"
    /\ \E j \in DOMAIN images :
        /\ j # last.body[1].id
        /\ images[j].review_status = last.body[1].review_status
        /\ images[j].created_at > last.body[1].created_at

\* C6: when no image has review_status = target_status, get_image_for_review ends
\* with the LookupError of its own "if not image" check and changes no table.
C6_LookupError ==
    [][\A u \in UserIds, target_status \in ImageReviewStatus :
        (/\ get_image_for_review(u, target_status)
         /\ BodyRan
         /\ ~ \E i \in DOMAIN images : images[i].review_status = target_status)
        => /\ last'.status = "LookupError"
           /\ UNCHANGED db]_vars

\* C9: an image that is gone stays gone: no step brings its row back, no fetch
\* returns it, and every PUT /review-image that looks it up answers 404 and
\* opens no session, whatever requests are in flight.
C9_NoResurrection ==
    [][\A i \in ImageIds :
        i \notin DOMAIN images
        => /\ i \notin DOMAIN images'
           /\ (last'.ep = GET_REVIEW /\ last'.status = "OK" => last'.body[1].id # i)
           /\ \A w \in Workers, u \in UserIds :
                update_image_review_status_get(w, u, i) /\ BodyRan
                => last'.status = "NOT_FOUND" /\ session' = session]_vars

\* An update that was in flight when its image was deleted has been refused
C9_Witness ==
    /\ last.ep = PUT_REVIEW
    /\ last.status = "StaleDataError"
    /\ DOMAIN images # ImageIds

----------------------------------------------------------------------------
(* Editing and removing an image *)

\* C5: a committed update of an existing image (remove_image = false, the team
\* of new_data.created_by known) leaves the row with new_data's batch,
\* created_at, annotations and review_status and with the id of the user whose
\* team number is new_data.created_by; the row keeps its id, and every other
\* row is as it was.
C5_UpdateWritesNewData ==
    [][\A w \in Workers, new_data \in ReviewMetadata :
        (/\ update_image_review_status_commit(w, new_data, FALSE)
         /\ new_data.id \in DOMAIN images
         /\ new_data.created_by \in TeamNumbers)
        => /\ DOMAIN images' = DOMAIN images
           /\ images'[new_data.id].batch = new_data.batch
           /\ images'[new_data.id].created_at = new_data.created_at
           /\ images'[new_data.id].annotations = new_data.annotations
           /\ images'[new_data.id].review_status = new_data.review_status
           /\ team_number_of(images'[new_data.id].created_by) = new_data.created_by
           /\ \A i \in DOMAIN images \ {new_data.id} : images'[i] = images[i]]_vars

\* An update has been committed that rewrote the batch, the annotations and the
\* team of one image and left another image as uploaded
C5_Witness ==
    /\ last = Response(PUT_REVIEW, "OK", <<>>)
    /\ \E i \in DOMAIN images :
        /\ images[i].batch = 2 /\ images[i].annotations = "boxes" /\ images[i].created_by = 2
        /\ \E j \in DOMAIN images \ {i} : images[j] \in PlainRow

\* C7: a PUT /review-image whose new_data.id names no row answers 404 (the
\* lookup comes before remove_image is read) and changes no image, user or
\* category and opens no session.
C7_UnknownImageIs404 ==
    [][\A w \in Workers, u \in UserIds, id \in ImageIds :
        (/\ update_image_review_status_get(w, u, id)
         /\ BodyRan
         /\ id \notin DOMAIN images)
        => /\ last'.status = "NOT_FOUND"
           /\ UNCHANGED <<db, session>>]_vars

\* A PUT for an image that had been deleted was answered 404
C7_Witness ==
    /\ last = Response(PUT_REVIEW, "NOT_FOUND", <<>>)
    /\ DOMAIN images # ImageIds

\* C8: a commit with remove_image = true for an existing image deletes that row
\* and nothing else, whatever the other fields of new_data: the other rows, the
\* users and the categories are as they were.
C8_RemoveDeletesOneRow ==
    [][\A w \in Workers, new_data \in ReviewMetadata :
        (/\ update_image_review_status_commit(w, new_data, TRUE)
         /\ new_data.id \in DOMAIN images)
        => /\ DOMAIN images' = DOMAIN images \ {new_data.id}
           /\ \A i \in DOMAIN images' : images'[i] = images[i]
           /\ UNCHANGED <<role, superCategories, categories>>]_vars

\* One image has been removed and the other is still there
C8_Witness ==
    /\ last = Response(PUT_REVIEW, "OK", <<>>)
    /\ Cardinality(DOMAIN images) = MaxImages - 1
    /\ \A w \in Workers : session[w] = <<>>

----------------------------------------------------------------------------
(* The dependencies of the routes *)

Privileged(u) == role[u] \in {"MODERATOR", "ADMIN"}

ModeratorRoutes == {GET_REVIEW, PUT_REVIEW, GET_IMAGE, PUT_SUPER, PUT_CATEGORY}

\* C2, as stated: the body of every handler runs only for a request that came
\* past a rate limiter of its route and past a role check of its route.
C2_EveryHandlerBehindBoth ==
    [][\A ep \in Endpoints, u \in UserIds :
        Request(ep, u) /\ BodyRan
        => /\ ep \in RateLimited
           /\ hits[ep] < requests_limit(ep)
           /\ ep \in RoleChecked
           /\ RoleDependency(ep, u)]_vars

\* C2, amended: the body of a handler runs only within the rate limit of its
\* route (5 requests a window; 10 for POST /token), the two category routes
\* excepted, which have no limiter; and only for a caller who passes the role
\* check of its route (ADMIN for PUT /change-user-role, MODERATOR or above for
\* the others), POST /token excepted, which has no role check.
C2_HandlersBehindTheirDependencies ==
    [][\A ep \in Endpoints, u \in UserIds :
        Request(ep, u) /\ BodyRan
        => /\ ep \in {GET_REVIEW, PUT_REVIEW, GET_IMAGE, PUT_ROLE} => hits[ep] < 5
           /\ ep = POST_TOKEN => hits[ep] < 10
           /\ ep \in ModeratorRoutes => Privileged(u)
           /\ ep = PUT_ROLE => role[u] = "ADMIN"]_vars

\* The eleventh POST /token of a window has been refused
C2_Witness ==
    /\ last = Response(POST_TOKEN, "TOO_MANY_REQUESTS", <<>>)
    /\ hits[POST_TOKEN] = 10

\* C3: a user's role changes only in a step of change_user_role whose caller
\* holds the role ADMIN in the state the request is made in.
C3_OnlyAdminChangesRoles ==
    [][role' # role
        => \E u \in UserIds, username \in Usernames, new_role \in UserRole :
            /\ change_user_role(u, username, new_role)
            /\ role[u] = "ADMIN"]_vars

\* A role has been changed, and no administrator is left
C3_Witness ==
    /\ last = Response(PUT_ROLE, "OK", <<>>)
    /\ \A u \in UserIds : role[u] # "ADMIN"

\* C4: a request to a moderator route by a caller below MODERATOR is refused
\* and changes neither a table nor a session, and one by a MODERATOR or an
\* ADMIN is never refused for its role; a session of PUT /review-image is
\* opened, an image is changed or deleted, and a category or super category is
\* created only on behalf of a MODERATOR or an ADMIN.
C4_ModeratorRoutes ==
    [][/\ \A ep \in ModeratorRoutes, u \in UserIds :
            Request(ep, u)
            => IF Privileged(u)
               THEN last'.status # "FORBIDDEN"
               ELSE last'.status \in GateStatuses /\ UNCHANGED <<db, session>>
       /\ \A w \in Workers :
            session[w] = <<>> /\ session'[w] # <<>>
            => \E u \in UserIds :
                Privileged(u) /\ update_image_review_status_get(w, u, session'[w][1])
       /\ images' # images => \E w \in Workers : session[w] # <<>> /\ session'[w] = <<>>
       /\ superCategories' # superCategories
            => \E u \in UserIds, category \in CategoryIds :
                Privileged(u) /\ create_label_super_category(u, category)
       /\ categories' # categories
            => \E u \in UserIds, category \in CategoryIds :
                Privileged(u) /\ create_label_category(u, category)
       /\ (last' # last /\ last'.ep = GET_REVIEW /\ last'.body # <<>>)
            => \E u \in UserIds : Privileged(u) /\ Request(GET_REVIEW, u)]_vars

\* A category was created, and a later request to create one was refused for
\* the caller's role
C4_Witness ==
    /\ last = Response(PUT_CATEGORY, "FORBIDDEN", <<>>)
    /\ categories # {}
    /\ \E u \in UserIds : role[u] = "USER"
    /\ \E u \in UserIds : role[u] = "ADMIN"

----------------------------------------------------------------------------
(* Draining the queue *)

Waiting == HasStatus(DrainStatus)

\* The step is a fetch that returned an image
Fetched == Len(returned') = Len(returned) + 1

\* get_image_for_review changes no table
FetchReadsOnly ==
    [][\A u \in UserIds, target_status \in ImageReviewStatus :
        get_image_for_review(u, target_status) => UNCHANGED db]_vars

\* Two fetches with no write between them return the same image
SameImageUntilWrite ==
    [][(last.ep = GET_REVIEW /\ last.status = "OK" /\ Fetched) => last'.body = last.body]_vars

\* Two fetches with no write between them return images of the same created_at,
\* and the same image when no other waiting image shares that created_at
SameDateUntilWrite ==
    [][(last.ep = GET_REVIEW /\ last.status = "OK" /\ Fetched)
        => /\ last'.body[1].created_at = last.body[1].created_at
           /\ (\A i \in Waiting \ {last.body[1].id} :
                    images[i].created_at # last.body[1].created_at)
              => last'.body = last.body]_vars

\* The images are returned in ascending order of created_at
ReturnedAscending ==
    \A j, k \in 1..Len(returned) : j <= k => returned[j].created_at <= returned[k].created_at

\* An image leaves the queue only after it has been returned
LeavesAfterReturned ==
    [][\A i \in Waiting :
        (i \notin DOMAIN images' \/ images'[i].review_status # DrainStatus)
        => \E k \in 1..Len(returned) : returned[k].id = i]_vars

\* The queue ends empty
QueueDrains == <>[](Waiting = {})

\* C10, as stated: a fetch changes no state and repeated fetches return the same
\* image until a write intervenes; moderators who fetch and then delete or
\* re-status what they fetched are returned every waiting image, in ascending
\* order of created_at, and in the end no image is waiting.
C10_DrainsSameImage ==
    /\ FetchReadsOnly
    /\ SameImageUntilWrite
    /\ []ReturnedAscending
    /\ LeavesAfterReturned
    /\ QueueDrains

\* C10, amended: as stated, but repeated fetches with no write between them
\* return images of the same (oldest) created_at, and the same image only when
\* no other waiting image shares that created_at.
C10_DrainsInOrder ==
    /\ FetchReadsOnly
    /\ SameDateUntilWrite
    /\ []ReturnedAscending
    /\ LeavesAfterReturned
    /\ QueueDrains

\* The queue held every image; they were returned oldest first, one of them
\* twice in a row, and none is waiting any more
C10_Witness ==
    /\ Waiting = {}
    /\ {returned[k].id : k \in 1..Len(returned)} = ImageIds
    /\ \E k \in 1..Len(returned) - 1 : returned[k].created_at < returned[k + 1].created_at
    /\ \E k \in 1..Len(returned) - 1 : returned[k] = returned[k + 1]

====
